---------------------------- MODULE Spec2Model ----------------------------
(***************************************************************************)
(* Model of the financial-statement extraction engine of CREDA.  The       *)
(* repository holds two versions of the engine:                            *)
(*   src/pipeline.py              ("root": tables first, regex fallback)   *)
(*   src/core_engine/pipeline.py  ("core": text-line and semantic-block,   *)
(*                                 consistency validator)                  *)
(* Both are modelled.  Text is modelled at character level: a page is a    *)
(* sequence of lines (the page text split at newlines), a table a sequence *)
(* of rows of nullable cells.  Numbers are fixed-point hundredths          *)
(* (1234.5 is 123450), which is exact for tokens of at most two fractional *)
(* digits.  Intermediate results are handed on as operator parameters, so  *)
(* that every definition applies each of the others once.                  *)
(***************************************************************************)
EXTENDS Integers, Sequences, FiniteSets, TLC

VARIABLES
    engine,        \* "root" (src/pipeline.py) or "core" (src/core_engine/pipeline.py)
    doc,           \* the document: a sequence of page ids of PageMenu
    pc,            \* the position of run_financial_analysis
    idx,           \* the page the locator looks at next (0-based, as in the code)
    start_page,    \* core: where the scan started
    current,       \* root: current; core: current_statement ("" is None)
    inside,        \* core: inside_financials
    processed,     \* core: pages_processed
    blocks,        \* root: blocks; core: fin_pages
    pages_scanned, \* diagnostics["pages_scanned"]
    metrics,       \* the metrics mapping
    warnings,      \* diagnostics["warnings"]
    traced,        \* root: diagnostics["metrics_extracted"]
    err,           \* the exception that ended the run ("" when none)
    inp,           \* the input of a function under test
    out            \* its result

vars == <<engine, doc, pc, idx, start_page, current, inside, processed, blocks,
          pages_scanned, metrics, warnings, traced, err, inp, out>>

-----------------------------------------------------------------------------
(* Characters and strings *)

\* s[i], and "" outside the string
Ch(s, i) == IF i \in 1..Len(s) THEN SubSeq(s, i, i) ELSE ""

\* the currency glyph U+20B9 of the code, written in ASCII here
RUPEE == "#"

Digits == {"0", "1", "2", "3", "4", "5", "6", "7", "8", "9"}

DigitVal(c) ==
    CASE c = "0" -> 0 [] c = "1" -> 1 [] c = "2" -> 2 [] c = "3" -> 3
      [] c = "4" -> 4 [] c = "5" -> 5 [] c = "6" -> 6 [] c = "7" -> 7
      [] c = "8" -> 8 [] c = "9" -> 9

LowerOf == [c \in {"A", "B", "C", "D", "E", "F", "G", "H", "I", "J", "K", "L", "M",
                   "N", "O", "P", "Q", "R", "S", "T", "U", "V", "W", "X", "Y", "Z"} |->
    CASE c = "A" -> "a" [] c = "B" -> "b" [] c = "C" -> "c" [] c = "D" -> "d"
      [] c = "E" -> "e" [] c = "F" -> "f" [] c = "G" -> "g" [] c = "H" -> "h"
      [] c = "I" -> "i" [] c = "J" -> "j" [] c = "K" -> "k" [] c = "L" -> "l"
      [] c = "M" -> "m" [] c = "N" -> "n" [] c = "O" -> "o" [] c = "P" -> "p"
      [] c = "Q" -> "q" [] c = "R" -> "r" [] c = "S" -> "s" [] c = "T" -> "t"
      [] c = "U" -> "u" [] c = "V" -> "v" [] c = "W" -> "w" [] c = "X" -> "x"
      [] c = "Y" -> "y" [] c = "Z" -> "z"]

LowerCh(c) == IF c \in DOMAIN LowerOf THEN LowerOf[c] ELSE c

RECURSIVE JoinStr(_, _, _)
\* the concatenation of the strings parts[a..b] (by halves, to keep the
\* evaluation shallow)
JoinStr(parts, a, b) ==
    IF a > b THEN ""
    ELSE IF a = b THEN parts[a]
    ELSE JoinStr(parts, a, (a + b) \div 2) \o JoinStr(parts, (a + b) \div 2 + 1, b)

RECURSIVE Flatten(_, _, _)
\* the concatenation of the sequences parts[a..b]
Flatten(parts, a, b) ==
    IF a > b THEN <<>>
    ELSE IF a = b THEN parts[a]
    ELSE Flatten(parts, a, (a + b) \div 2) \o Flatten(parts, (a + b) \div 2 + 1, b)

\* str.lower()
Lower(s) == JoinStr([i \in 1..Len(s) |-> LowerCh(Ch(s, i))], 1, Len(s))

\* str.replace(c, "") for a single character c
Remove(s, c) ==
    JoinStr([i \in 1..Len(s) |-> IF Ch(s, i) = c THEN "" ELSE Ch(s, i)], 1, Len(s))

WhiteSpace == {" ", "\n"}

Min(S) == CHOOSE x \in S : \A y \in S : x <= y

Max(S) == CHOOSE x \in S : \A y \in S : x >= y

\* s from its first to its last character of the set keep of positions
Between(s, keep) == IF keep = {} THEN "" ELSE SubSeq(s, Min(keep), Max(keep))

\* str.strip()
Strip(s) == Between(s, {i \in 1..Len(s) : Ch(s, i) \notin WhiteSpace})

\* p in s (substring test), p not empty
Contains(s, p) ==
    \E i \in 1..(Len(s) - Len(p) + 1) : SubSeq(s, i, i + Len(p) - 1) = p

StartsWith(s, p) == Len(s) >= Len(p) /\ SubSeq(s, 1, Len(p)) = p

EndsWith(s, p) == Len(s) >= Len(p) /\ SubSeq(s, Len(s) - Len(p) + 1, Len(s)) = p

\* any(p in text for p in phrases)
contains_any(text, phrases) == \E p \in phrases : Contains(text, p)

\* position of the first character of s in the set cs, 0 when there is none
FirstIn(s, cs) ==
    IF \E i \in 1..Len(s) : Ch(s, i) \in cs
    THEN Min({i \in 1..Len(s) : Ch(s, i) \in cs})
    ELSE 0

\* s before position i (all of s when i is 0), and s after it ("" when i is 0)
Before(s, i) == IF i = 0 THEN s ELSE SubSeq(s, 1, i - 1)
After(s, i) == IF i = 0 THEN "" ELSE SubSeq(s, i + 1, Len(s))

-----------------------------------------------------------------------------
(* Python values.  A float is [k |-> "num", v |-> hundredths]; None, nan    *)
(* and the infinities are values of their own.                              *)

Scale == 10 * 10

None == [k |-> "none", v |-> 0]
NaN == [k |-> "nan", v |-> 0]
Inf(sgn) == [k |-> "inf", v |-> sgn]
Num(h) == [k |-> "num", v |-> h]

IsNum(x) == x.k = "num"

Abs(n) == IF n < 0 THEN -n ELSE n

RECURSIVE Pow10(_)
Pow10(n) == IF n <= 0 THEN 1 ELSE 10 * Pow10(n - 1)

RECURSIVE DecVal(_)
\* the value of a string of digits ("" is 0)
DecVal(s) ==
    IF s = "" THEN 0
    ELSE DecVal(SubSeq(s, 1, Len(s) - 1)) * 10 + DigitVal(Ch(s, Len(s)))

\* digitpart ::= digit (["_"] digit)*
IsDigitPart(s) ==
    /\ s # ""
    /\ \A i \in 1..Len(s) : Ch(s, i) \in Digits \cup {"_"}
    /\ Ch(s, 1) \in Digits
    /\ Ch(s, Len(s)) \in Digits
    /\ ~ Contains(s, "__")

\* d * 10^shift, digits beyond the hundredths cut
Shifted(d, shift) == IF shift >= 0 THEN d * Pow10(shift) ELSE d \div Pow10(-shift)

\* the float of sign sgn, integer digits ip, fraction digits fp and exponent ev
FloatOfDigits(sgn, ip, fp, ev) ==
    Num(sgn * Shifted(DecVal(ip \o fp), 2 + ev - Len(fp)))

\* the float of the literal with integer part ip, fraction part fp and exponent
\* part xp ("" when it has none, hasExp tells); None stands for ValueError
FloatOfParts(sgn, ip, fp, hasExp, xp) ==
    IF /\ ip = "" \/ IsDigitPart(ip)
       /\ fp = "" \/ IsDigitPart(fp)
       /\ ip # "" \/ fp # ""
       /\ ~ hasExp \/ IsDigitPart(IF Ch(xp, 1) \in {"+", "-"} THEN After(xp, 1) ELSE xp)
    THEN FloatOfDigits(sgn, Remove(ip, "_"), Remove(fp, "_"),
            IF ~ hasExp THEN 0
            ELSE IF Ch(xp, 1) = "-" THEN -DecVal(Remove(After(xp, 1), "_"))
            ELSE IF Ch(xp, 1) = "+" THEN DecVal(Remove(After(xp, 1), "_"))
            ELSE DecVal(Remove(xp, "_")))
    ELSE [k |-> "none", v |-> 0]

\* the mantissa m split at its point (at position dot, 0 when it has none)
FloatOfMantissa(sgn, m, dot, hasExp, xp) ==
    FloatOfParts(sgn, Before(m, dot), After(m, dot), hasExp, xp)

\* the unsigned literal u split at its exponent mark (at position e, 0: none)
FloatOfLiteral(sgn, u, e) ==
    FloatOfMantissa(sgn, Before(u, e), FirstIn(Before(u, e), {"."}), e # 0, After(u, e))

\* float() of the unsigned text u with sign sgn; w is u in lower case
FloatOfUnsigned(sgn, u, w) ==
    IF w \in {"inf", "infinity"} THEN Inf(sgn)
    ELSE IF w = "nan" THEN NaN
    ELSE FloatOfLiteral(sgn, u, FirstIn(u, {"e", "E"}))

FloatOfSigned(sgn, u) == FloatOfUnsigned(sgn, u, Lower(u))

\* float() of a stripped text
FloatOfStripped(t) ==
    FloatOfSigned(IF Ch(t, 1) = "-" THEN -1 ELSE 1,
                  IF Ch(t, 1) \in {"+", "-"} THEN After(t, 1) ELSE t)

\* float(s) of Python; None stands for ValueError
PyFloat(s) == FloatOfStripped(Strip(s))

\* src/pipeline.py parse_number, lines 47-48: a text in parentheses is negated
Unwrapped(t) ==
    IF StartsWith(t, "(") /\ EndsWith(t, ")")
    THEN "-" \o SubSeq(t, 2, Len(t) - 1)
    ELSE t

\* src/pipeline.py parse_number, on a str (every caller passes one)
parse_number(text) == PyFloat(Unwrapped(Strip(Remove(text, ","))))

-----------------------------------------------------------------------------
(* Regular expressions of the two engines, as left-to-right scanners *)

\* the last index of the run of characters of cs that starts at i (i-1: no run)
RunEnd(s, i, cs) ==
    CHOOSE j \in (i - 1)..Len(s) :
        /\ \A k \in i..j : Ch(s, k) \in cs
        /\ Ch(s, j + 1) \notin cs

NumChars == Digits \cup {","}

\* the first digit of a match of r"\(?\d[\d,]*\)?" that starts at i (0: none does)
FallbackDigitAt(s, i) ==
    IF Ch(s, i) = "(" /\ Ch(s, i + 1) \in Digits THEN i + 1
    ELSE IF Ch(s, i) \in Digits THEN i
    ELSE 0

\* the end of the match that starts at p: the run [\d,]* and an optional ")"
FallbackEndAt(s, e) == IF Ch(s, e + 1) = ")" THEN e + 1 ELSE e

RECURSIVE FindAllFallback(_, _)

\* the match from p to e, and the matches after it
FallbackCut(s, p, e) == <<SubSeq(s, p, e)>> \o FindAllFallback(s, e + 1)

\* the leftmost match among the starts, and the matches after it
FallbackFirst(s, starts) ==
    IF starts = {} THEN <<>>
    ELSE FallbackCut(s, Min(starts),
            FallbackEndAt(s, RunEnd(s, FallbackDigitAt(s, Min(starts)), NumChars)))

\* re.findall(r"\(?\d[\d,]*\)?", s) from position i on
FindAllFallback(s, i) ==
    FallbackFirst(s, {p \in i..Len(s) : FallbackDigitAt(s, p) # 0})

\* the position after the optional "(" and the optional glyph of a match at i
AfterPrefix(s, i) ==
    IF Ch(s, i) = "(" THEN (IF Ch(s, i + 1) = RUPEE THEN i + 2 ELSE i + 1)
    ELSE IF Ch(s, i) = RUPEE THEN i + 1
    ELSE i

\* the first [\d,] of a match of r"\(?RUPEE?\s*[\d,]+(?:\.\d+)?\)?" that starts
\* at i (0: none does)
LineDigitAt(s, i) ==
    IF Ch(s, RunEnd(s, AfterPrefix(s, i), WhiteSpace) + 1) \in NumChars
    THEN RunEnd(s, AfterPrefix(s, i), WhiteSpace) + 1
    ELSE 0

\* the end of the match whose run [\d,]+ ends at e: the fraction, then ")"
LineFractionEnd(s, e) ==
    IF Ch(s, e + 1) = "." /\ Ch(s, e + 2) \in Digits THEN RunEnd(s, e + 2, Digits) ELSE e

RECURSIVE FindAllLine(_, _)

LineCut(s, p, e) == <<SubSeq(s, p, e)>> \o FindAllLine(s, e + 1)

LineFirst(s, starts) ==
    IF starts = {} THEN <<>>
    ELSE LineCut(s, Min(starts),
            FallbackEndAt(s,
                LineFractionEnd(s, RunEnd(s, LineDigitAt(s, Min(starts)), NumChars))))

\* re.findall(r"\(?RUPEE?\s*[\d,]+(?:\.\d+)?\)?", s) from position i on
FindAllLine(s, i) == LineFirst(s, {p \in i..Len(s) : LineDigitAt(s, p) # 0})

\* the cleaned text of one match of extract_numbers_from_line
Cleaned(m) == Strip(Remove(Remove(Remove(Remove(m, RUPEE), ","), "("), ")"))

\* lines 90-91: a match with both parentheses is negated
Signed(m, num) ==
    IF ~ IsNum(num) THEN <<>>
    ELSE IF Contains(m, "(") /\ Contains(m, ")") THEN <<Num(-num.v)>>
    ELSE <<num>>

\* what one match adds to the values (an empty cleaned text is skipped, and so
\* is a ValueError)
NumberOfCleaned(m, cleaned) == IF cleaned = "" THEN <<>> ELSE Signed(m, PyFloat(cleaned))

NumberOf(m) == NumberOfCleaned(m, Cleaned(m))

\* the loop of extract_numbers_from_line over the matches
NumbersOf(ms) == Flatten([k \in DOMAIN ms |-> NumberOf(ms[k])], 1, Len(ms))

\* src/core_engine/pipeline.py extract_numbers_from_line
extract_numbers_from_line(text) == NumbersOf(FindAllLine(text, 1))

-----------------------------------------------------------------------------
(* Configuration of the two engines *)

BS == "Balance Sheet"
PL == "Profit & Loss"
Kinds == {BS, PL}

\* src/pipeline.py: the label maps, in the order of the dict
PL_LABELS == <<
    [metric |-> "Revenue", keys |-> {"revenue from operations", "total income"}],
    [metric |-> "Net Profit",
     keys |-> {"profit for the year", "profit attributable to owners",
               "profit attributable to equity holders"}],
    [metric |-> "PBT", keys |-> {"profit before tax"}],
    [metric |-> "Interest Expense", keys |-> {"finance cost"}],
    [metric |-> "Depreciation", keys |-> {"depreciation and amortization"}] >>

BS_LABELS == <<
    [metric |-> "Current Assets", keys |-> {"total current assets"}],
    [metric |-> "Current Liabilities", keys |-> {"total current liabilities"}],
    [metric |-> "Total Assets", keys |-> {"total assets"}],
    [metric |-> "Net Worth", keys |-> {"total equity attributable"}] >>

LabelMap(statement) == IF statement = BS THEN BS_LABELS ELSE PL_LABELS

STATEMENT_HEADERS(kind) ==
    IF kind = BS
    THEN {"consolidated balance sheet", "consolidated statement of financial position"}
    ELSE {"consolidated statement of profit and loss", "consolidated statement of profit"}

STOP_HEADERS == {"notes to the consolidated financial statements", "notes forming part"}

\* src/core_engine/pipeline.py
MIN_TEXT_CHARS == 120
MAX_FIN_PAGES == 40
MAX_PREFLIGHT_PAGES == 50

CorePL_LABELS == <<
    [metric |-> "Revenue", keys |-> {"revenue from operations", "total income"}],
    [metric |-> "PBT", keys |-> {"profit before tax"}],
    [metric |-> "Interest Expense", keys |-> {"finance cost"}],
    [metric |-> "Depreciation", keys |-> {"depreciation and amortization"}] >>

NET_PROFIT_ANCHORS ==
    {"profit after tax", "profit for the year", "total comprehensive income for the year"}

BS_ANCHORS == <<
    [metric |-> "Net Worth",
     keys |-> {"total equity attributable to equity holders",
               "total equity attributable", "total equity"}],
    [metric |-> "Total Assets", keys |-> {"total assets"}],
    [metric |-> "Current Assets", keys |-> {"total current assets"}],
    [metric |-> "Current Liabilities", keys |-> {"total current liabilities"}] >>

CoreSTATEMENT_HEADERS(kind) ==
    IF kind = BS
    THEN {"consolidated balance sheet", "consolidated balance sheets",
          "statement of financial position",
          "consolidated statement of financial position"}
    ELSE {"consolidated statement of profit and loss", "statement of profit and loss",
          "statement of profit & loss", "consolidated statement of profit"}

FIN_SECTION_ANCHORS ==
    {"annual accounts", "financial statements",
     "standalone and consolidated financial statements",
     "consolidated financial statements", "financial section"}

\* the materiality floor: the literal 1000 of both engines
MaterialityFloor == 1000

\* abs(v) >= 1000 (abs(nan) >= 1000 is false)
AtFloor(x) == (IsNum(x) /\ Abs(x.v) >= MaterialityFloor * Scale) \/ x.k = "inf"

\* src/pipeline.py line 185: v and abs(v) >= 1000
Material(x) == AtFloor(x)

\* src/pipeline.py lines 130, 136: value is None or abs(value) < 1000
TableLow(x) == x.k = "none" \/ (IsNum(x) /\ Abs(x.v) < MaterialityFloor * Scale)

\* the thirteen metric names of the output vocabulary
Vocabulary ==
    {"Revenue", "Net Profit", "PBT", "Interest Expense", "Depreciation",
     "Current Assets", "Current Liabilities", "Total Assets", "Net Worth",
     "Total Debt", "Principal Repayment", "EBIT", "EBITDA"}

-----------------------------------------------------------------------------
(* Documents.  A page is [text: the lines of extract_text(), or the        *)
(* absence of text; tables: the result of extract_tables()].  A cell is    *)
(* <<>> for None and <<s>> for the string s.                               *)

\* a sentence of ordinary report text, which makes a page a text page
Filler ==
    "The accompanying report describes the business of the group and its subsidiaries for the period under review in much detail."

NoCell == <<>>
Cell(s) == <<s>>
Row3(a, b, c) == <<Cell(a), Cell(b), Cell(c)>>

\* the table of the specification's example
ExampleTable ==
    << Row3("Particulars", "2024", "2023"),
       Row3("Profit before tax", "(500)", "300") >>

GoodPLTable ==
    << Row3("Particulars", "FY 2023", "FY 2024"),
       Row3("Revenue from operations", "80,000", "90,000"),
       <<NoCell, Cell("1"), Cell("2")>>,
       Row3("Profit before tax", "3,000", "(5,000)"),
       Row3("Finance costs", "1,500", "2,000.50"),
       Row3("Profit for the year", "-", "-"),
       Row3("Owners of the company", "2,500", "4,000") >>

\* a label row shorter than the header
ShortRowTable ==
    << Row3("Particulars", "2023", "2024"),
       <<Cell("Total Assets"), Cell("50,000")>> >>

NoYearTable ==
    << Row3("Particulars", "Current", "Previous"),
       Row3("Total Assets", "50,000", "45,000") >>

\* a table with years in its header, next to one without
CurrentAssetsTable ==
    << Row3("Particulars", "2024", "2023"),
       Row3("Total current assets", "12,000", "9,500") >>

\* a table of a page that continues a statement
ContinuedTable ==
    << Row3("Particulars", "FY 2023", "FY 2024"),
       Row3("Revenue from operations", "70,000", "75,000") >>

\* a table with a cell that is not a figure
NotANumberTable ==
    << Row3("Particulars", "FY 2023", "FY 2024"),
       Row3("Revenue from operations", "80,000", "nan") >>

\* a page without a text layer (extract_text() is None), a page of text lines,
\* and a page of text lines and tables
NoText == [lines |-> <<>>, tables |-> <<>>]
TextPage(lines) == [lines |-> lines, tables |-> <<>>]
TablePage(lines, tables) == [lines |-> lines, tables |-> tables]

\* the pages that documents are made of
PageMenu == <<
    \* 1: a consolidated balance sheet whose net worth exceeds its total assets
    TextPage(<< Filler,
                "Consolidated Balance Sheet as at 31 March 2024",
                "Total Current Assets  12,000  9,500",
                "Total current liabilities 8,000 7,000",
                "Total Assets 50,000 45,000",
                "Total equity attributable to owners 60,000 40,000" >>),
    \* 2: a consolidated statement of profit and loss, as text
    TextPage(<< Filler,
                "Consolidated Statement of Profit and Loss",
                "Revenue from operations 80,000 90,000",
                "Finance costs 2,000 1,500",
                "Profit before tax (5,000) 3,000 250",
                "Profit for the year 4,000 2,500" >>),
    \* 3: a statement of profit and loss with the example table
    TablePage(<< Filler, "Consolidated Statement of Profit and Loss" >>,
              << ExampleTable >>),
    \* 4: a statement of profit and loss with a table of material values
    TablePage(<< Filler,
                 "Consolidated Statement of Profit and Loss",
                 "Depreciation and amortization expense 1,200 1,100" >>,
              << GoodPLTable >>),
    \* 5: a page that names both the standalone and the consolidated statement
    TextPage(<< Filler,
                "Standalone and Consolidated Balance Sheet",
                "Total Assets 70,000 65,000" >>),
    \* 6: the notes
    TextPage(<< Filler,
                "Notes forming part of the financial statements",
                "Total Assets 99,000" >>),
    \* 7: a page without any anchor, with negative figures
    TextPage(<< Filler,
                "Total income 1,500 1,200",
                "Total Assets (5,000)",
                "Total current liabilities (5,000)" >>),
    \* 8: a page without a text layer
    NoText,
    \* 9: a short balance sheet page with a table without years and a table
    \*    with a short row
    TablePage(<< "Consolidated Balance Sheet", "Total Assets 1,000" >>,
              << NoYearTable, ShortRowTable >>),
    \* 10: a statement of financial position with an empty table
    TablePage(<< Filler, "Consolidated Statement of Financial Position" >>,
              << <<>> >>),
    \* 11: a page without any anchor that continues a statement, with a table
    TablePage(<< Filler, "Particulars (continued)" >>, << ContinuedTable >>),
    \* 12: a page that carries a start anchor and a stop anchor
    TextPage(<< Filler,
                "Consolidated Balance Sheet",
                "See the notes forming part of the financial statements",
                "Total Assets 88,000 77,000" >>),
    \* 13: a statement of profit and loss whose table has a cell "nan"
    TablePage(<< Filler, "Consolidated Statement of Profit and Loss" >>,
              << NotANumberTable >>),
    \* 14: a balance sheet with a table without years and a table with years
    TablePage(<< Filler,
                 "Consolidated Balance Sheet as at 31 March 2024",
                 "Total Assets 50,000 45,000" >>,
              << NoYearTable, CurrentAssetsTable >>) >>

PageIds == DOMAIN PageMenu

\* the sequences over S of length at most n
SeqsUpTo(S, n) == UNION {[1..k -> S] : k \in 0..n}

\* "\n".join(parts)
JoinLines(parts) ==
    JoinStr([i \in DOMAIN parts |-> IF i = 1 THEN parts[i] ELSE "\n" \o parts[i]],
            1, Len(parts))

\* page.extract_text() or "", of each page of the menu
PageText == [p \in PageIds |-> JoinLines(PageMenu[p].lines)]

\* src/pipeline.py scan_pages: the lower-cased text of each page of the menu
LowerText == [p \in PageIds |-> Lower(PageText[p])]

\* text.split("\n") of a page with text
PageLines == [p \in PageIds |-> PageMenu[p].lines]

\* [l.strip() for l in txt.split("\n") if l.strip()]
StrippedLines ==
    [p \in PageIds |->
        SelectSeq([i \in DOMAIN PageLines[p] |-> Strip(PageLines[p][i])],
                  LAMBDA l : l # "")]

\* page.extract_tables() or []
PageTables == [p \in PageIds |-> PageMenu[p].tables]

\* pdf.pages[i] of the document, i counted from 0 as in the code
PdfPage(i) == doc[i + 1]

\* len(pdf.pages)
NumPages == Len(doc)

\* src/core_engine/pipeline.py is_text_page
is_text_page(text) == IF text = "" THEN FALSE ELSE Len(Strip(text)) >= MIN_TEXT_CHARS

-----------------------------------------------------------------------------
(* The statement locator *)

\* dict assignment d[k] = val
Put(d, k, val) == [x \in DOMAIN d \cup {k} |-> IF x = k THEN val ELSE d[x]]

\* blocks.get(kind, []) and fin_pages[kind]: the pages (counted from 0) of a region
Region(kind) == IF kind \in DOMAIN blocks THEN blocks[kind] ELSE <<>>

\* the page with index i (counted from 0) is in the region of the kind
InRegion(kind, i) == \E k \in DOMAIN Region(kind) : Region(kind)[k] = i

\* src/pipeline.py line 70: "standalone" in text
IsStandalone == [p \in PageIds |-> Contains(LowerText[p], "standalone")]

\* src/pipeline.py lines 74-80: the statement that the page opens ("": none)
RootOpens ==
    [p \in PageIds |->
        IF contains_any(LowerText[p], STATEMENT_HEADERS(BS)) THEN BS
        ELSE IF contains_any(LowerText[p], STATEMENT_HEADERS(PL)) THEN PL
        ELSE ""]

\* any(stop in text for stop in STOP_HEADERS)
HasStop == [p \in PageIds |-> contains_any(LowerText[p], STOP_HEADERS)]

\* src/pipeline.py lines 82-86, with current and blocks as lines 74-80 left them
RootAdded(p, cur, blk) ==
    IF cur = "" \/ HasStop[p]
    THEN current' = "" /\ blocks' = blk
    ELSE current' = cur /\ blocks' = Put(blk, cur, Append(blk[cur], idx))

\* src/pipeline.py lines 68-86: the body of the loop for the page p
RootScanned(p) ==
    IF IsStandalone[p]
    THEN current' = "" /\ UNCHANGED blocks
    ELSE IF RootOpens[p] # ""
    THEN RootAdded(p, RootOpens[p], Put(blocks, RootOpens[p], <<>>))
    ELSE RootAdded(p, current, blocks)

\* one iteration of the loop of detect_consolidated_statement_blocks
ScanPageRoot ==
    /\ engine = "root" /\ pc = "scan" /\ idx < NumPages
    /\ RootScanned(PdfPage(idx))
    /\ idx' = idx + 1
    /\ UNCHANGED <<engine, doc, pc, start_page, inside, processed, pages_scanned,
                   metrics, warnings, traced, err, inp, out>>

\* src/core_engine/pipeline.py line 147, for page i of the document
InFinSection(i) == contains_any(LowerText[PdfPage(i)], FIN_SECTION_ANCHORS)

PreflightWarning == "Financial statements section not found (using full scan)"

\* src/core_engine/pipeline.py lines 138-161: the search for the first page of
\* the financial section, among the first 200 pages
CorePreflight ==
    /\ engine = "core" /\ pc = "preflight"
    /\ IF \E i \in 0..(Min({NumPages, 200}) - 1) : InFinSection(i)
       THEN /\ start_page' = Min({i \in 0..(Min({NumPages, 200}) - 1) : InFinSection(i)})
            /\ UNCHANGED warnings
       ELSE /\ start_page' = 0
            /\ warnings' = Append(warnings, PreflightWarning)
    /\ idx' = start_page'
    /\ pc' = "scan"
    /\ UNCHANGED <<engine, doc, current, inside, processed, blocks, pages_scanned,
                   metrics, traced, err, inp, out>>

\* is_text_page(raw_text) of each page of the menu
IsTextPage == [p \in PageIds |-> is_text_page(PageText[p])]

\* line 179: the stripped, lower-cased, non-empty lines
CoreLines ==
    [p \in PageIds |-> [i \in DOMAIN StrippedLines[p] |-> Lower(StrippedLines[p][i])]]

\* lines 182-190: the statement of the first line that carries a header, the
\* balance sheet first within a line ("": no line carries one)
FirstHeader(lines, hits) ==
    IF hits = {} THEN ""
    ELSE IF contains_any(lines[Min(hits)], CoreSTATEMENT_HEADERS(BS)) THEN BS
    ELSE PL

CoreOpens ==
    [p \in PageIds |->
        FirstHeader(CoreLines[p],
            {i \in DOMAIN CoreLines[p] :
                contains_any(CoreLines[p][i],
                             CoreSTATEMENT_HEADERS(BS) \cup CoreSTATEMENT_HEADERS(PL))})]

\* lines 192-199, with the statement cur of the page ("": none)
CoreAdded(cur) ==
    IF cur = ""
    THEN /\ idx' = idx + 1
         /\ UNCHANGED <<pc, current, inside, processed, blocks>>
    ELSE /\ current' = cur
         /\ inside' = TRUE
         /\ blocks' = [blocks EXCEPT ![cur] = Append(@, idx)]
         /\ processed' = processed + 1
         /\ idx' = idx + 1
         /\ pc' = IF processed + 1 >= MAX_FIN_PAGES THEN "located" ELSE "scan"

\* one iteration of the loop of lines 163-199 for the page p
CoreScanned(p) ==
    IF ~ inside /\ (idx - start_page) > MAX_PREFLIGHT_PAGES
    THEN pc' = "located" /\ UNCHANGED <<idx, current, inside, processed, blocks, pages_scanned>>
    ELSE IF ~ IsTextPage[p]
    THEN idx' = idx + 1 /\ UNCHANGED <<pc, current, inside, processed, blocks, pages_scanned>>
    ELSE /\ pages_scanned' = pages_scanned \cup {idx + 1}
         /\ IF inside /\ HasStop[p]
            THEN pc' = "located" /\ UNCHANGED <<idx, current, inside, processed, blocks>>
            ELSE CoreAdded(IF inside THEN current ELSE CoreOpens[p])

ScanPageCore ==
    /\ engine = "core" /\ pc = "scan" /\ idx < NumPages
    /\ CoreScanned(PdfPage(idx))
    /\ UNCHANGED <<engine, doc, start_page, metrics, warnings, traced, err, inp, out>>

\* the scan has ended: by a break, or at the end of the document
ScanDone == pc = "located" \/ (pc = "scan" /\ idx >= NumPages)

-----------------------------------------------------------------------------
(* src/pipeline.py: the table-column strategy.  Columns and rows are        *)
(* counted from 1 here and from 0 in the code.                              *)

\* str(cell)
CellStr(c) == IF c = NoCell THEN "None" ELSE c[1]

\* not cell
CellEmpty(c) == c = NoCell \/ c[1] = ""

\* r"(20\d{2})" matches at position i of s
IsYearAt(s, i) ==
    /\ Ch(s, i) = "2" /\ Ch(s, i + 1) = "0"
    /\ Ch(s, i + 2) \in Digits /\ Ch(s, i + 3) \in Digits

\* the year of the leftmost match among the starts (0: there is no match)
YearFrom(s, starts) ==
    IF starts = {} THEN 0
    ELSE 2000 + 10 * DigitVal(Ch(s, Min(starts) + 2)) + DigitVal(Ch(s, Min(starts) + 3))

\* lines 97-101: the year that a header cell carries (0: none)
YearOf(c) ==
    IF CellEmpty(c) THEN 0
    ELSE YearFrom(c[1], {i \in 1..Len(c[1]) : IsYearAt(c[1], i)})

\* detect_year_columns: year_cols[year] = idx, so that the last column that
\* carries a year is the column of the year
YearColumns(header) ==
    [y \in {YearOf(header[c]) : c \in DOMAIN header} \ {0} |->
        Max({c \in DOMAIN header : YearOf(header[c]) = y})]

detect_year_columns(table) == YearColumns(table[1])

\* the column of the earliest year
ColumnOfEarliest(year_cols) == year_cols[Min(DOMAIN year_cols)]

\* lines 113-114: latest_year = max(year_cols.keys()); col_idx = year_cols[latest_year]
ColumnOf(year_cols) == year_cols[Max(DOMAIN year_cols)]

\* lines 127-128 and 133-134: parse_number(str(row[col_idx]))
ValueAt(table, r, col) == parse_number(CellStr(table[r][col]))

\* lines 130-134: for Net Profit, a low value is replaced by the value of the
\* row below, when there is one
LookAhead(table, r, col, value) ==
    IF TableLow(value) /\ r < Len(table) THEN ValueAt(table, r + 1, col) ELSE value

AmbiguousWarning == "Ambiguous or invalid numeric value"

\* lines 136-153: the record (confidence in hundredths)
TableRecord(value, statement, page_no) ==
    IF TableLow(value)
    THEN [value |-> None, statement |-> statement, page |-> page_no,
          method |-> "table-column", confidence |-> 0,
          warnings |-> <<AmbiguousWarning>>]
    ELSE [value |-> value, statement |-> statement, page |-> page_no,
          method |-> "table-column", confidence |-> 95, warnings |-> <<>>]

\* lines 122-126: the metrics not yet in results whose keys the label matches
Matching(label, label_map, results) ==
    {label_map[k].metric : k \in {j \in DOMAIN label_map :
        /\ label_map[j].metric \notin DOMAIN results
        /\ contains_any(label, label_map[j].keys)}}

\* row[col_idx] or next_row[col_idx] is out of range for a row with names
RowRaises(table, r, col, names) ==
    /\ names # {}
    /\ \/ col > Len(table[r])
       \/ /\ "Net Profit" \in names
          /\ r < Len(table)
          /\ TableLow(ValueAt(table, r, col))
          /\ col > Len(table[r + 1])

\* the value of the metric m in row r
RowValue(table, r, col, m, value) ==
    IF m = "Net Profit" THEN LookAhead(table, r, col, value) ELSE value

\* the records that row r adds
RowRecords(table, r, col, names, statement, page_no) ==
    [m \in names |->
        TableRecord(RowValue(table, r, col, m, ValueAt(table, r, col)),
                    statement, page_no)]

NoResults == [results |-> <<>>, raised |-> ""]

RECURSIVE TableLoop(_, _, _, _, _, _, _)

\* the body of the loop of line 116 for a row r with a label
TableRow(table, col, label_map, statement, page_no, r, acc, names) ==
    IF RowRaises(table, r, col, names)
    THEN [results |-> acc.results, raised |-> "IndexError"]
    ELSE TableLoop(table, col, label_map, statement, page_no, r + 1,
            [results |-> RowRecords(table, r, col, names, statement, page_no)
                            @@ acc.results,
             raised |-> ""])

\* lines 116-155: the loop over the rows from r on
TableLoop(table, col, label_map, statement, page_no, r, acc) ==
    IF r > Len(table) THEN acc
    ELSE IF table[r] = <<>> \/ CellEmpty(table[r][1])
    THEN TableLoop(table, col, label_map, statement, page_no, r + 1, acc)
    ELSE TableRow(table, col, label_map, statement, page_no, r, acc,
                  Matching(Lower(CellStr(table[r][1])), label_map, acc.results))

\* lines 108-157, with the year columns of the header
TableWithYears(table, year_cols, label_map, statement, page_no) ==
    IF DOMAIN year_cols = {} THEN NoResults
    ELSE TableLoop(table, ColumnOf(year_cols), label_map, statement, page_no, 2,
                   NoResults)

\* extract_from_table: the results, or the exception raised (table[0] of an
\* empty table is an IndexError)
extract_from_table(table, label_map, statement, page_no) ==
    IF table = <<>> THEN [results |-> <<>>, raised |-> "IndexError"]
    ELSE TableWithYears(table, detect_year_columns(table), label_map, statement, page_no)

-----------------------------------------------------------------------------
(* src/pipeline.py: the regex fallback, and the extraction of a statement  *)

\* lines 184-185: the parsed tokens that are material
ParseAll(nums) == SelectSeq([k \in DOMAIN nums |-> parse_number(nums[k])], Material)

\* max(values), for values that are numbers (a token of the regex parses to a
\* number or not at all)
MaxOf(values) ==
    values[CHOOSE k \in DOMAIN values : \A j \in DOMAIN values : values[j].v <= values[k].v]

\* values[-2] if len(values) >= 2 else values[-1]
SecondLastOf(values) ==
    IF Len(values) >= 2 THEN values[Len(values) - 1] ELSE values[Len(values)]

\* lines 190-193
FallbackChoice(metric, values) ==
    IF metric \in {"Revenue", "Total Assets", "Current Assets"}
    THEN MaxOf(values)
    ELSE SecondLastOf(values)

\* lines 179-182: the tokens of the line, or of the next line when it has none
TokensOf(nums, next) == IF nums = <<>> THEN FindAllFallback(next, 1) ELSE nums

\* lines 179-185 for a line and the line after it ("" when it is the last)
FallbackValues(line, next) == ParseAll(TokensOf(FindAllFallback(line, 1), next))

FallbackRecordWarning == "Table extraction failed; regex fallback used"

\* lines 195-202, for the page with index p (confidence in hundredths)
FallbackRecord(value, statement, p) ==
    [value |-> value, statement |-> statement, page |-> p + 1,
     method |-> "regex-fallback", confidence |-> 60,
     warnings |-> <<FallbackRecordWarning>>]

\* lines 174-204: the records that a line adds for the metrics names
LineRecords(names, values, statement, p) ==
    IF values = <<>> THEN <<>>
    ELSE [m \in names |-> FallbackRecord(FallbackChoice(m, values), statement, p)]

\* the lines of the pages of a region, each with its page and the line after it
LinesOfPage(p, lines) ==
    [i \in DOMAIN lines |->
        [page |-> p, line |-> lines[i],
         next |-> IF i < Len(lines) THEN lines[i + 1] ELSE ""]]

LinesOf(region) ==
    Flatten([k \in DOMAIN region |-> LinesOfPage(region[k], PageLines[PdfPage(region[k])])],
            1, Len(region))

RECURSIVE FallbackLoop(_, _, _, _, _)

\* lines 171-204 for one line e, with the metrics names that it matches
FallbackLine(entries, label_map, statement, k, results, names) ==
    FallbackLoop(entries, label_map, statement, k + 1,
        IF names = {} THEN results
        ELSE LineRecords(names, FallbackValues(entries[k].line, entries[k].next),
                         statement, entries[k].page) @@ results)

\* lines 164-204: the loop over the lines from the k-th on
FallbackLoop(entries, label_map, statement, k, results) ==
    IF k > Len(entries) THEN results
    ELSE FallbackLine(entries, label_map, statement, k, results,
                      Matching(Lower(entries[k].line), label_map, results))

\* extract_regex_fallback
extract_regex_fallback(pages, label_map, statement) ==
    FallbackLoop(LinesOf(pages), label_map, statement, 1, <<>>)

\* the tables of the pages of a region, each with its page
TablesOfPage(p, tables) == [t \in DOMAIN tables |-> [page |-> p, table |-> tables[t]]]

TablesOf(region) ==
    Flatten([k \in DOMAIN region |-> TablesOfPage(region[k], PageTables[PdfPage(region[k])])],
            1, Len(region))

RECURSIVE TablesLoop(_, _, _, _, _)

\* extracted.update(...) and the records traced in diagnostics, for the result
\* r of one table
TableDone(entries, label_map, statement, k, acc, r) ==
    IF r.raised # ""
    THEN [results |-> acc.results, traced |-> acc.traced, raised |-> r.raised]
    ELSE TablesLoop(entries, label_map, statement, k + 1,
            [results |-> r.results @@ acc.results,
             traced |-> r.results @@ acc.traced,
             raised |-> ""])

\* lines 231-236 and 252-257: the loop over the tables of the pages of a region
TablesLoop(entries, label_map, statement, k, acc) ==
    IF k > Len(entries) THEN acc
    ELSE TableDone(entries, label_map, statement, k, acc,
            extract_from_table(entries[k].table, label_map, statement,
                               entries[k].page + 1))

\* the warning of lines 239 and 260
FallbackWarning(statement) ==
    IF statement = BS
    THEN "Balance Sheet table extraction failed; regex fallback used"
    ELSE "P&L table extraction failed; regex fallback used"

\* the records of the fallback, traced as well
Fallen(results, tr) ==
    [results |-> results, traced |-> results @@ tr, raised |-> "", fell |-> TRUE]

\* lines 238-240 and 259-261: the fallback runs when the tables gave no record
WithFallback(statement, t) ==
    IF t.raised # "" \/ DOMAIN t.results # {}
    THEN [results |-> t.results, traced |-> t.traced, raised |-> t.raised, fell |-> FALSE]
    ELSE Fallen(extract_regex_fallback(Region(statement), LabelMap(statement), statement),
                t.traced)

\* lines 224-240 and 245-261: the extraction of one statement
RootExtract(statement) ==
    WithFallback(statement,
        TablesLoop(TablesOf(Region(statement)), LabelMap(statement), statement, 1,
                   [results |-> <<>>, traced |-> traced, raised |-> ""]))

\* the effect of the extraction r of a statement on the run
RootExtracted(statement, r, then) ==
    /\ pages_scanned' = pages_scanned \cup {Region(statement)[k] + 1 : k \in DOMAIN Region(statement)}
    /\ IF r.raised # ""
       THEN pc' = "raised" /\ err' = r.raised /\ UNCHANGED <<metrics, warnings, traced>>
       ELSE /\ pc' = then
            /\ metrics' = r.results @@ metrics
            /\ traced' = r.traced
            /\ warnings' = IF r.fell THEN Append(warnings, FallbackWarning(statement))
                           ELSE warnings
            /\ UNCHANGED err
    /\ UNCHANGED <<engine, doc, idx, start_page, current, inside, processed, blocks,
                   inp, out>>

\* lines 224-242: the balance sheet
RootExtractBS ==
    /\ engine = "root" /\ ScanDone
    /\ RootExtracted(BS, RootExtract(BS), "bs_done")

\* lines 245-263: the statement of profit and loss
RootExtractPL ==
    /\ engine = "root" /\ pc = "bs_done"
    /\ RootExtracted(PL, RootExtract(PL), "extracted")

-----------------------------------------------------------------------------
(* Python arithmetic on the values of the records *)

\* the left operand alone
PyAddLeft(a, b) == a

\* a + b for floats (None as an operand is a TypeError, see the callers)
PyAdd(a, b) ==
    IF a.k = "nan" \/ b.k = "nan" THEN NaN
    ELSE IF a.k = "inf" THEN (IF b.k = "inf" /\ b.v # a.v THEN NaN ELSE a)
    ELSE IF b.k = "inf" THEN b
    ELSE Num(a.v + b.v)

\* bool(x)
Truthy(x) == x.k \in {"nan", "inf"} \/ (IsNum(x) /\ x.v # 0)

\* a > b and a == b, for numbers
Greater(a, b) == a.v > b.v
PyEq(a, b) == a.v = b.v

\* metrics.get(k, {}).get("value", 0.0)
ValueIn(m, k) == IF k \in DOMAIN m THEN m[k].value ELSE Num(0)

\* the record with another value
SetValue(m, k, val) == [m EXCEPT ![k] = [@ EXCEPT !.value = val]]

-----------------------------------------------------------------------------
(* src/pipeline.py: defaults, derived metrics and ratios *)

\* lines 267-272 (confidence in hundredths)
RootDefault ==
    [value |-> Num(0), statement |-> "Manual / Assumed", confidence |-> 50,
     warnings |-> <<"Defaulted to zero">>]

\* metrics.setdefault(k, d) for Total Debt and Principal Repayment
WithDefaults(m, d) == m @@ [k \in {"Total Debt", "Principal Repayment"} |-> d]

\* lines 277-278: the record of a derived metric
RootDerived(value) ==
    [value |-> value, statement |-> "Derived", confidence |-> 90, warnings |-> <<>>]

\* lines 277-278 add None to a number: a TypeError
RootDeriveRaises(m) ==
    \E k \in {"PBT", "Interest Expense", "Depreciation"} : ValueIn(m, k) = None

\* lines 277-278, with EBIT
WithEBITDA(m, ebit) ==
    Put(Put(m, "EBIT", RootDerived(ebit)), "EBITDA",
        RootDerived(PyAdd(ebit, ValueIn(m, "Depreciation"))))

RootDerive(m) == WithEBITDA(m, PyAdd(ValueIn(m, "PBT"), ValueIn(m, "Interest Expense")))

\* line 283: ta = v("Total Assets") or (nw + td), for a net worth that is not None
TotalAssetsOr(m) ==
    IF Truthy(ValueIn(m, "Total Assets")) THEN ValueIn(m, "Total Assets")
    ELSE PyAdd(ValueIn(m, "Net Worth"), ValueIn(m, "Total Debt"))

\* lines 281-295 raise a TypeError: nw + td with a net worth of None, ca / cl
\* with current assets of None, np / ta with a net profit of None
RootRatiosRaise(m) ==
    \/ ValueIn(m, "Net Worth") = None
    \/ Truthy(ValueIn(m, "Current Liabilities")) /\ ValueIn(m, "Current Assets") = None
    \/ Truthy(TotalAssetsOr(m)) /\ ValueIn(m, "Net Profit") = None

\* lines 281-297, with the metrics m of line 278
RootReturned(m) ==
    IF RootRatiosRaise(m)
    THEN pc' = "raised" /\ err' = "TypeError" /\ UNCHANGED metrics
    ELSE pc' = "returned" /\ metrics' = m /\ UNCHANGED err

\* lines 277-297, with the metrics m of line 272
RootFinished(m) ==
    IF RootDeriveRaises(m)
    THEN pc' = "raised" /\ err' = "TypeError" /\ UNCHANGED metrics
    ELSE RootReturned(RootDerive(m))

\* lines 266-297
RootFinish ==
    /\ engine = "root" /\ pc = "extracted"
    /\ RootFinished(WithDefaults(metrics, RootDefault))
    /\ UNCHANGED <<engine, doc, idx, start_page, current, inside, processed, blocks,
                   pages_scanned, warnings, traced, inp, out>>

-----------------------------------------------------------------------------
(* src/core_engine/pipeline.py: text-line and semantic-block extraction     *)

\* collect_lines: the stripped, non-empty lines of the pages of a region
collect_lines(pages) ==
    Flatten([k \in DOMAIN pages |-> StrippedLines[PdfPage(pages[k])]], 1, Len(pages))

\* extract_numbers_from_line of each line
LineNumbers(lines) == [i \in DOMAIN lines |-> extract_numbers_from_line(lines[i])]

\* line 219: [v for v in nums if abs(v) >= 1000], of each line
MaterialOnly(nums) == [i \in DOMAIN nums |-> SelectSeq(nums[i], AtFloor)]

\* lines 214-220: the lines that match the keys and have material numbers
TextLineHits(lines, nums, keys) ==
    {i \in DOMAIN lines : contains_any(Lower(lines[i]), keys) /\ nums[i] # <<>>}

\* the keys of a metric of a label map
KeysOf(label_map, m) ==
    label_map[CHOOSE k \in DOMAIN label_map : label_map[k].metric = m].keys

\* lines 221-225: the record of the first line that matches
TextLineRecord(nums, hits) ==
    [value |-> MaxOf(nums[Min(hits)]), statement |-> PL, method |-> "text-line"]

\* lines 213-225: the records of the text-line strategy, for the material
\* numbers nums of the lines
TextLineRecords(lines, nums) ==
    [m \in {CorePL_LABELS[k].metric : k \in {j \in DOMAIN CorePL_LABELS :
                TextLineHits(lines, nums, CorePL_LABELS[j].keys) # {}}} |->
        TextLineRecord(nums, TextLineHits(lines, nums, KeysOf(CorePL_LABELS, m)))]

\* lines 100-103: the numbers of the windows of the anchor lines, window = 4
BlockCandidates(lines, nums, anchor_phrases) ==
    Flatten([i \in DOMAIN lines |->
                IF contains_any(Lower(lines[i]), anchor_phrases)
                THEN Flatten(nums, i, Min({i + 4, Len(lines)}))
                ELSE <<>>],
            1, Len(lines))

\* line 106: candidates[0] if candidates else 0
BlockChoice(candidates) == IF candidates = <<>> THEN Num(0) ELSE candidates[1]

\* extract_semantic_block_value, for the numbers nums of the lines
BlockValue(lines, nums, anchor_phrases) ==
    BlockChoice(SelectSeq(BlockCandidates(lines, nums, anchor_phrases), AtFloor))

extract_semantic_block_value(lines, anchor_phrases) ==
    BlockValue(lines, LineNumbers(lines), anchor_phrases)

\* lines 227-231
NetProfitRecord(lines) ==
    [m \in {"Net Profit"} |->
        [value |-> extract_semantic_block_value(lines, NET_PROFIT_ANCHORS),
         statement |-> PL, method |-> "semantic-block"]]

\* lines 236-241
BSRecords(lines) ==
    [m \in {BS_ANCHORS[k].metric : k \in DOMAIN BS_ANCHORS} |->
        [value |-> extract_semantic_block_value(lines, KeysOf(BS_ANCHORS, m)),
         statement |-> BS, method |-> "semantic-block"]]

\* lines 213-231
PLRecords(lines) ==
    NetProfitRecord(lines) @@ TextLineRecords(lines, MaterialOnly(LineNumbers(lines)))

\* lines 210-241
CoreExtract ==
    /\ engine = "core" /\ ScanDone
    /\ metrics' = BSRecords(collect_lines(Region(BS))) @@ PLRecords(collect_lines(Region(PL)))
    /\ pc' = "extracted"
    /\ UNCHANGED <<engine, doc, idx, start_page, current, inside, processed, blocks,
                   pages_scanned, warnings, traced, err, inp, out>>

-----------------------------------------------------------------------------
(* src/core_engine/pipeline.py: the consistency validator, on a snapshot   *)
(* [metrics, warnings]                                                      *)

NetWorthWarning == "Net Worth > Total Assets - reset"
CurrentAssetsWarning == "Current Assets > Total Assets - reset"
NetProfitWarning == "Net Profit equals PBT - reset"

\* the reset of a metric, with its warning
Reset(s, k, w) ==
    [metrics |-> SetValue(s.metrics, k, Num(0)), warnings |-> Append(s.warnings, w)]

\* lines 250-252, with the values of lines 245-246
CheckNetWorth(s, ta, nw) ==
    IF Greater(nw, ta) /\ Greater(ta, Num(0))
    THEN Reset(s, "Net Worth", NetWorthWarning)
    ELSE s

\* the check, but not after a reset of the net worth
CheckCurrentAssetsUnlessReset(s, ta, ca) ==
    IF Greater(ca, ta) /\ Greater(ta, Num(0)) /\ ValueIn(s.metrics, "Net Worth") # Num(0)
    THEN Reset(s, "Current Assets", CurrentAssetsWarning)
    ELSE s

\* lines 254-256, with the values of lines 245 and 247
CheckCurrentAssets(s, ta, ca) ==
    IF Greater(ca, ta) /\ Greater(ta, Num(0))
    THEN Reset(s, "Current Assets", CurrentAssetsWarning)
    ELSE s

\* lines 258-260
CheckNetProfit(s) ==
    IF PyEq(ValueIn(s.metrics, "Net Profit"), ValueIn(s.metrics, "PBT"))
    THEN Reset(s, "Net Profit", NetProfitWarning)
    ELSE s

\* lines 250-260, with the values of lines 245-247
Validated(s, ta, nw, ca) ==
    CheckNetProfit(CheckCurrentAssets(CheckNetWorth(s, ta, nw), ta, ca))

\* lines 243-260
Validate(s) ==
    Validated(s, ValueIn(s.metrics, "Total Assets"), ValueIn(s.metrics, "Net Worth"),
              ValueIn(s.metrics, "Current Assets"))

\* the snapshot s becomes the state of the run
Snapshot(s) == metrics' = s.metrics /\ warnings' = s.warnings

CoreValidate ==
    /\ engine = "core" /\ pc = "extracted"
    /\ Snapshot(Validate([metrics |-> metrics, warnings |-> warnings]))
    /\ pc' = "validated"
    /\ UNCHANGED <<engine, doc, idx, start_page, current, inside, processed, blocks,
                   pages_scanned, traced, err, inp, out>>

-----------------------------------------------------------------------------
(* src/core_engine/pipeline.py: defaults, derived metrics and ratios        *)

\* lines 262-263
CoreDefault == [value |-> Num(0)]

\* lines 265-266, with EBIT
CoreWithEBITDA(m, ebit) ==
    Put(Put(m, "EBIT", [value |-> ebit]), "EBITDA",
        [value |-> PyAdd(ebit, ValueIn(m, "Depreciation"))])

CoreDerive(m) ==
    CoreWithEBITDA(m, PyAdd(ValueIn(m, "PBT"), ValueIn(m, "Interest Expense")))

\* lines 268-272: capital_employed = ta - cl is the divisor when it is above
\* 0.2 * ta, which a capital employed of 0 is for negative total assets: a
\* ZeroDivisionError
CoreRatiosRaise(m) ==
    /\ ValueIn(m, "Total Assets").v - ValueIn(m, "Current Liabilities").v = 0
    /\ ValueIn(m, "Total Assets").v < 0

NoStatementWarning == "No consolidated financial statements detected"

\* lines 262-286
CoreFinish ==
    /\ engine = "core" /\ pc = "validated"
    /\ IF CoreRatiosRaise(metrics)
       THEN pc' = "raised" /\ err' = "ZeroDivisionError" /\ UNCHANGED <<metrics, warnings>>
       ELSE /\ pc' = "returned"
            /\ metrics' = CoreDerive(WithDefaults(metrics, CoreDefault))
            /\ warnings' = IF Region(BS) = <<>> /\ Region(PL) = <<>>
                           THEN Append(warnings, NoStatementWarning)
                           ELSE warnings
            /\ UNCHANGED err
    /\ UNCHANGED <<engine, doc, idx, start_page, current, inside, processed, blocks,
                   pages_scanned, traced, inp, out>>

-----------------------------------------------------------------------------
(* The runs of the two engines over the documents *)

MaxPages == 2

Documents == SeqsUpTo(PageIds, MaxPages)

\* the state at the call of run_financial_analysis of engine e on document d
RunInit(e, d) ==
    /\ engine = e /\ doc = d
    /\ pc = IF e = "root" THEN "scan" ELSE "preflight"
    /\ idx = 0 /\ start_page = 0 /\ current = "" /\ inside = FALSE /\ processed = 0
    /\ blocks = IF e = "root" THEN <<>> ELSE [k \in Kinds |-> <<>>]
    /\ pages_scanned = {} /\ metrics = <<>> /\ warnings = <<>> /\ traced = <<>>
    /\ err = "" /\ inp = <<>> /\ out = <<>>

Init == \E e \in {"root", "core"}, d \in Documents : RunInit(e, d)

Next ==
    \/ ScanPageRoot
    \/ RootExtractBS
    \/ RootExtractPL
    \/ RootFinish
    \/ CorePreflight
    \/ ScanPageCore
    \/ CoreExtract
    \/ CoreValidate
    \/ CoreFinish

Spec == Init /\ [][Next]_vars

-----------------------------------------------------------------------------
(* The functions on their own: each specification draws the input of a      *)
(* function from a bounded set and applies the function to it.              *)

\* the variables of a run, when no run is under way
NoRun ==
    /\ engine = "none" /\ doc = <<>> /\ idx = 0 /\ start_page = 0 /\ current = ""
    /\ inside = FALSE /\ processed = 0 /\ blocks = <<>> /\ pages_scanned = {}
    /\ err = ""

RunUnchanged ==
    UNCHANGED <<engine, doc, idx, start_page, current, inside, processed, blocks,
                pages_scanned, err>>

\* the function was applied: its result, and the position after it
Applied(result, then) ==
    /\ out' = result /\ pc' = then
    /\ UNCHANGED <<inp, metrics, warnings, traced>>
    /\ RunUnchanged

(* The number parsers on tokens *)

MaxTokenLen == 4

TokenAlphabet == {"1", "0", ",", "(", ")", ".", RUPEE, " ", "-"}

RECURSIVE StringsUpTo(_)
\* the strings over the alphabet of length at most n
StringsUpTo(n) ==
    IF n = 0 THEN {""}
    ELSE StringsUpTo(n - 1) \cup {s \o c : s \in StringsUpTo(n - 1), c \in TokenAlphabet}

\* the tokens of the specification's examples, and words that float() accepts
LongTokens ==
    {"(1,234)", "1,234.50", RUPEE \o "1,234", "(" \o RUPEE \o "1,234)",
     "nan", "inf", "-Infinity", "1e3", "None", "abc"}

Tokens == StringsUpTo(MaxTokenLen) \cup LongTokens

InitParse ==
    /\ NoRun /\ pc = "token" /\ inp \in Tokens /\ out = <<>>
    /\ metrics = <<>> /\ warnings = <<>> /\ traced = <<>>

\* src/pipeline.py parse_number on the token
ParseNumber == pc = "token" /\ Applied(parse_number(inp), "parsed")

\* src/core_engine/pipeline.py extract_numbers_from_line on the token
ExtractNumbers == pc = "token" /\ Applied(extract_numbers_from_line(inp), "numbers")

NextParse == ParseNumber \/ ExtractNumbers

SpecParse == InitParse /\ [][NextParse]_vars

(* The table-column strategy on tables of a header and one or two rows *)

TableHeaders ==
    { Row3("Particulars", "2024", "2023"),
      Row3("Particulars", "FY 2023", "FY 2024"),
      Row3("Particulars", "31 March 2024", "2024"),
      Row3("Particulars", "Current", "Previous") }

RowLabels ==
    {"Profit before tax", "Finance costs", "Profit for the year", "Total Assets",
     "Other income"}

RowCells ==
    {Cell("(500)"), Cell("300"), Cell("(5,000)"), Cell("90,000"), Cell("1,234.50"),
     Cell("-"), NoCell}

\* the rows of a label and one or two cells
TableRows ==
    {<<Cell(l), c>> \o rest :
        l \in RowLabels, c \in RowCells, rest \in {<<>>} \cup {<<d>> : d \in RowCells}}

\* the rows below the first row: none, or one row without a label that matches
RowsBelow ==
    {<<>>} \cup {<<Row3("Owners of the company", "2,500", "4,000")>>,
                 << <<Cell("Owners of the company")>> >>}

Tables == {<<h, r>> \o below : h \in TableHeaders, r \in TableRows, below \in RowsBelow}

InitTable ==
    /\ NoRun /\ pc = "table" /\ out = <<>>
    /\ inp \in [table : Tables, statement : Kinds]
    /\ metrics = <<>> /\ warnings = <<>> /\ traced = <<>>

\* extract_from_table with its result r: line 155 records in diagnostics what
\* it returns
TableExtracted(r) ==
    /\ out' = r /\ pc' = "tabled"
    /\ traced' = IF r.raised = "" THEN r.results @@ traced ELSE traced
    /\ UNCHANGED <<inp, metrics, warnings>>
    /\ RunUnchanged

ExtractTable ==
    /\ pc = "table"
    /\ TableExtracted(extract_from_table(inp.table, LabelMap(inp.statement),
                                         inp.statement, 1))

NextTable == ExtractTable

SpecTable == InitTable /\ [][NextTable]_vars

(* The text strategies on a label and its candidate tokens *)

MaxTokens == 3

\* candidate tokens, each with the number it stands for (not in hundredths)
TokenMenu == <<
    [s |-> "12,000", n |-> 12000], [s |-> "9,500", n |-> 9500],
    [s |-> "(20,000)", n |-> -20000], [s |-> "500", n |-> 500],
    [s |-> "(3,000)", n |-> -3000] >>

\* labels, each with the metric it is the label of
LabelMenu == <<
    [s |-> "Total Current Assets", metric |-> "Current Assets", statement |-> BS],
    [s |-> "Total current liabilities", metric |-> "Current Liabilities", statement |-> BS],
    [s |-> "Revenue from operations", metric |-> "Revenue", statement |-> PL],
    [s |-> "Profit before tax", metric |-> "PBT", statement |-> PL],
    [s |-> "Profit for the year", metric |-> "Net Profit", statement |-> PL] >>

\* the tokens, each after two blanks
TokenText(toks) == JoinStr([i \in DOMAIN toks |-> "  " \o TokenMenu[toks[i]].s], 1, Len(toks))

\* the lines: the label and its tokens on one line, or the tokens on the line
\* after the label
LinesFor(label, toks, layout) ==
    IF layout = "same" THEN <<LabelMenu[label].s \o TokenText(toks)>>
    ELSE <<LabelMenu[label].s, Strip(TokenText(toks))>>

InitText ==
    /\ NoRun /\ pc = "line" /\ out = <<>>
    /\ \E label \in DOMAIN LabelMenu, toks \in SeqsUpTo(DOMAIN TokenMenu, MaxTokens),
          layout \in {"same", "next"} :
          inp = [label |-> label, toks |-> toks, layout |-> layout,
                 lines |-> LinesFor(label, toks, layout)]
    /\ metrics = <<>> /\ warnings = <<>> /\ traced = <<>>

\* src/pipeline.py lines 169-204 on the lines, as the text of page 0
FallbackOnLines ==
    /\ pc = "line"
    /\ Applied(FallbackLoop(LinesOfPage(0, inp.lines),
                            LabelMap(LabelMenu[inp.label].statement),
                            LabelMenu[inp.label].statement, 1, <<>>),
               "regex-fallback")

\* src/core_engine/pipeline.py lines 213-225 on the lines
TextLineOnLines ==
    /\ pc = "line"
    /\ Applied(TextLineRecords(inp.lines, MaterialOnly(LineNumbers(inp.lines))),
               "text-line")

\* src/core_engine/pipeline.py lines 227-241 on the lines
SemanticBlockOnLines ==
    /\ pc = "line"
    /\ Applied(BSRecords(inp.lines) @@ NetProfitRecord(inp.lines), "semantic-block")

NextText == FallbackOnLines \/ TextLineOnLines \/ SemanticBlockOnLines

SpecText == InitText /\ [][NextText]_vars

(* The consistency validator on snapshots *)

MaxUnits == 2

\* the values of a snapshot: multiples of the materiality floor
SnapshotValues == {Num(i * MaterialityFloor * Scale) : i \in (-1)..MaxUnits}

\* the metrics of a snapshot that the checks of the validator do not read
Bystanders ==
    [m \in {"Current Liabilities", "Revenue", "Interest Expense", "Depreciation"} |->
        [value |-> Num(MaterialityFloor * Scale)]]

\* the snapshots: the five metrics that the validator reads, and the
\* bystanders; PBT is absent when the text-line strategy did not find it
Snapshots ==
    {Bystanders @@
     [m \in {"Total Assets", "Net Worth", "Current Assets", "Net Profit"} \cup pbt |->
        [value |-> f[m]]] :
        f \in [{"Total Assets", "Net Worth", "Current Assets", "Net Profit", "PBT"} ->
                  SnapshotValues],
        pbt \in {{}, {"PBT"}}}

InitValidator ==
    /\ NoRun /\ pc = "snapshot" /\ inp = <<>> /\ out = <<>>
    /\ metrics \in Snapshots /\ warnings = <<>> /\ traced = <<>>

\* the validator is applied to the snapshot; out keeps the snapshot before it
ValidatedOnce(then) ==
    /\ Snapshot(Validate([metrics |-> metrics, warnings |-> warnings]))
    /\ out' = [metrics |-> metrics, warnings |-> warnings]
    /\ pc' = then
    /\ UNCHANGED <<inp, traced>>
    /\ RunUnchanged

ValidateOnce == pc = "snapshot" /\ ValidatedOnce("once")

ValidateAgain == pc = "once" /\ ValidatedOnce("twice")

NextValidator == ValidateOnce \/ ValidateAgain

SpecValidator == InitValidator /\ [][NextValidator]_vars

-----------------------------------------------------------------------------
(* The claims *)

\* the value of a metric in the metrics of the run
ValueOf(m) == ValueIn(metrics, m)

\* the warnings of the run contain w
Warned(w) == \E k \in DOMAIN warnings : warnings[k] = w

\* the statement that a page opens, for the engine that runs
OpensIn(p) == IF engine = "root" THEN RootOpens[p] ELSE CoreOpens[p]

\* the text of the page has a start anchor of the engine that runs
HasStartAnchor(p) ==
    IF engine = "root"
    THEN contains_any(LowerText[p], STATEMENT_HEADERS(BS) \cup STATEMENT_HEADERS(PL))
    ELSE contains_any(LowerText[p], CoreSTATEMENT_HEADERS(BS) \cup CoreSTATEMENT_HEADERS(PL))

\* C1: a page whose lower-cased text contains "standalone" is in neither
\* region, whether it would open a region or continue one; a page is in a
\* region only after a start anchor of the region's kind on a page from which
\* on no page contains "standalone".
C1_StandaloneExcluded ==
    \A kind \in Kinds : \A i \in 0..(NumPages - 1) :
        InRegion(kind, i) =>
            /\ ~ IsStandalone[PdfPage(i)]
            /\ \E j \in 0..i :
                  /\ OpensIn(PdfPage(j)) = kind
                  /\ \A k \in j..i : ~ IsStandalone[PdfPage(k)]

\* no page of the document has a start anchor of either kind
NoStartAnchor == \A i \in DOMAIN doc : ~ HasStartAnchor(doc[i])

\* the metrics that are assumed or derived, not extracted from a region
NotExtracted == {"Total Debt", "Principal Repayment", "EBIT", "EBITDA"}

\* C2: when no page of the document matches a start anchor, the run returns
\* with both regions empty, with a statement-not-found entry among the
\* warnings, and without any record extracted from a region.
C2_NothingFound ==
    (pc = "returned" /\ NoStartAnchor) =>
        /\ Region(BS) = <<>> /\ Region(PL) = <<>>
        /\ Warned(NoStatementWarning)
        /\ DOMAIN metrics \subseteq NotExtracted

\* C3: the engine has no fatal error state: no run ends in an exception, in
\* particular not in the derived-metric step on a record with a null value.
C3_NoFatalError == pc # "raised"

\* C4: after validation a net-worth warning goes with a net worth of 0, and in
\* every returned snapshot total assets above 0 imply that the net worth is
\* not above the total assets.
C4_NetWorthWithinAssets ==
    pc \in {"validated", "returned"} =>
        /\ Warned(NetWorthWarning) => ValueOf("Net Worth") = Num(0)
        /\ Greater(ValueOf("Total Assets"), Num(0)) =>
              ~ Greater(ValueOf("Net Worth"), ValueOf("Total Assets"))

\* C5: the validator is idempotent: applied a second time, it leaves the
\* metric values and the warnings list as the first application left them.
C5_Idempotent ==
    pc = "twice" => metrics = out.metrics /\ warnings = out.warnings

\* the header and the first row of the table under test
HeaderOf(t) == t[1]
FirstRow(t) == t[2]

\* the columns whose header cell carries the largest year of the header
LatestColumns(header) ==
    {c \in DOMAIN header :
        /\ YearOf(header[c]) # 0
        /\ \A d \in DOMAIN header : YearOf(header[d]) <= YearOf(header[c])}

\* the number is at or above the materiality floor
AtOrAboveFloor(x) == IsNum(x) /\ Abs(x.v) >= MaterialityFloor * Scale

\* the signed parse of the cell of column c of row r of the table
ParsedCell(t, r, c) == parse_number(CellStr(t[r][c]))

\* the value that the record of metric m carries for the cell of column c of
\* the first row: the parse of the cell (for Net Profit, of the cell of the
\* row below when the parse is below the floor and there is a row below), and
\* no value when that is not a number at or above the floor
ExpectedValue(t, m, c) ==
    LET own == ParsedCell(t, 2, c)
        v == IF m = "Net Profit" /\ ~ AtOrAboveFloor(own) /\ Len(t) > 2
             THEN ParsedCell(t, 3, c) ELSE own
    IN  IF AtOrAboveFloor(v) THEN v ELSE None

\* the metrics whose keywords the label of the first row matches
MatchedBy(t, statement) ==
    Matching(Lower(CellStr(FirstRow(t)[1])), LabelMap(statement), <<>>)

\* every row of the table has a cell in each of the columns
HasCells(t, cols) == \A r \in 2..Len(t) : \A c \in cols : c <= Len(t[r])

Candidates ==
    SelectSeq([i \in DOMAIN inp.toks |-> TokenMenu[inp.toks[i]].n],
              LAMBDA n : Abs(n) >= MaterialityFloor)

\* the candidate of maximum absolute value
MaxAbsCandidate ==
    CHOOSE n \in {Candidates[i] : i \in DOMAIN Candidates} :
        \A i \in DOMAIN Candidates : Abs(Candidates[i]) <= Abs(n)

\* the metric of the label under test
MetricUnderTest == LabelMenu[inp.label].metric

\* the strategy that was applied looks for the metric where the tokens are:
\* the regex fallback and the semantic block read the line and the lines
\* after it, the text-line strategy reads the line alone
Reads ==
    \/ pc = "regex-fallback"
    \/ pc = "text-line" /\ MetricUnderTest \in {"Revenue", "PBT"} /\ inp.layout = "same"
    \/ pc = "semantic-block"
         /\ MetricUnderTest \in {"Current Assets", "Current Liabilities", "Net Profit"}

\* C7: when the line of a metric has material candidates, each text strategy
\* records the candidate of maximum absolute value, for every metric, for
\* negative candidates and in whatever order the candidates stand.
C7_MaxAbsCandidate ==
    (Reads /\ Candidates # <<>>) =>
        /\ MetricUnderTest \in DOMAIN out
        /\ out[MetricUnderTest].value = Num(MaxAbsCandidate * Scale)

\* the token has a digit
HasDigit(s) == \E i \in 1..Len(s) : Ch(s, i) \in Digits

\* C8: the number parser strips currency glyphs and commas, negates a token
\* in parentheses ("(1,234)" is -1234.0, "1,234.50" is 1234.5) and returns
\* the failure signal, never a number, for the empty token and for every
\* token without digits.
C8_NumberParser ==
    pc = "parsed" =>
        /\ out = parse_number(Remove(inp, RUPEE))
        /\ ~ HasDigit(inp) => out = None
        /\ inp = "(1,234)" => out = Num((-1234) * Scale)
        /\ inp = "1,234.50" => out = Num(123450)
        /\ inp = "" => out = None

\* C9: the metrics that a run returns have an entry for each of the thirteen
\* names of the vocabulary.
C9_VocabularyComplete == pc = "returned" => Vocabulary \subseteq DOMAIN metrics

\* a warning of the run mentions the metric
WarnedAbout(m) == \E k \in DOMAIN warnings : Contains(warnings[k], m)

\* C10: a target metric for which no strategy found a number at or above the
\* materiality floor is returned with value 0, and a warning of the run
\* notes that the metric was not found.
C10_NotFoundIsZeroAndWarned ==
    pc = "returned" =>
        \A m \in Vocabulary \ NotExtracted :
            (m \notin DOMAIN metrics \/ ~ AtOrAboveFloor(metrics[m].value)) =>
                /\ m \in DOMAIN metrics
                /\ metrics[m].value = Num(0)
                /\ WarnedAbout(m)

\* the result of the k-th table of the region of a statement
TableResult(statement, k) ==
    extract_from_table(TablesOf(Region(statement))[k].table, LabelMap(statement),
                       statement, TablesOf(Region(statement))[k].page + 1).results

\* the tables of the region whose result has a material value for the metric
TablesWith(statement, m) ==
    {k \in DOMAIN TablesOf(Region(statement)) :
        /\ m \in DOMAIN TableResult(statement, k)
        /\ AtOrAboveFloor(TableResult(statement, k)[m].value)}

\* the material numbers of a line
MaterialNumbers(line) ==
    {x \in {extract_numbers_from_line(line)[j] :
                j \in DOMAIN extract_numbers_from_line(line)} : AtOrAboveFloor(x)}

\* the lines of the region whose text matches the keys and has a material number
LinesWith(lines, keys) ==
    {i \in DOMAIN lines :
        contains_any(Lower(lines[i]), keys) /\ MaterialNumbers(lines[i]) # {}}

\* the metrics of a label map
MetricsOf(label_map) == {label_map[k].metric : k \in DOMAIN label_map}

\* the record of the first table with a material value is the record after
\* the extraction (table-column strategy)
FirstTableKept ==
    \A statement \in Kinds : \A m \in MetricsOf(LabelMap(statement)) :
        TablesWith(statement, m) # {} =>
            /\ m \in DOMAIN metrics
            /\ metrics[m] = TableResult(statement, Min(TablesWith(statement, m)))[m]

\* the record comes from the first line with a material value (text-line
\* strategy)
FirstLineKept ==
    \A m \in MetricsOf(CorePL_LABELS) :
        LinesWith(collect_lines(Region(PL)), KeysOf(CorePL_LABELS, m)) # {} =>
            /\ m \in DOMAIN metrics
            /\ metrics[m].method = "text-line"
            /\ metrics[m].value \in
                 MaterialNumbers(collect_lines(Region(PL))[
                     Min(LinesWith(collect_lines(Region(PL)), KeysOf(CorePL_LABELS, m)))])

\* C11: once a table, page or line has recorded a metric with a material
\* value, no later table, page or line of the run replaces the record: after
\* the extraction the record of a metric is the first material one.
C11_FirstRecordWins ==
    /\ (pc = "extracted" /\ engine = "root") => FirstTableKept
    /\ (pc = "extracted" /\ engine = "core") => FirstLineKept

\* the three operands of the derived metrics are numbers other than 0
HasOperands ==
    \A m \in {"PBT", "Interest Expense", "Depreciation"} :
        m \in DOMAIN metrics /\ IsNum(metrics[m].value) /\ metrics[m].value.v # 0

\* C12: in every returned snapshot EBIT is PBT plus Interest Expense and
\* EBITDA is EBIT plus Depreciation, on the final values of the snapshot,
\* where a metric without a record counts as 0.
C12_DerivedMetrics ==
    pc = "returned" =>
        /\ {"EBIT", "EBITDA"} \subseteq DOMAIN metrics
        /\ metrics["EBIT"].value =
             Num(ValueOf("PBT").v + ValueOf("Interest Expense").v)
        /\ metrics["EBITDA"].value =
             Num(metrics["EBIT"].value.v + ValueOf("Depreciation").v)

\* a run returns with PBT, Interest Expense and Depreciation found, and with
\* their sum as EBITDA
C12_Witness ==
    /\ pc = "returned" /\ HasOperands
    /\ metrics["EBITDA"].value =
         Num(metrics["PBT"].value.v + metrics["Interest Expense"].value.v
               + metrics["Depreciation"].value.v)

\* C13: for a table whose header carries a year, the column used for the
\* extraction is the column of the largest year, and the leftmost one when
\* several header cells carry that year: the records are made from it.
C13_LeftmostLatestYear ==
    (pc = "tabled" /\ LatestColumns(HeaderOf(inp.table)) # {}
       /\ HasCells(inp.table, LatestColumns(HeaderOf(inp.table)))) =>
        /\ out.raised = ""
        /\ \A m \in MatchedBy(inp.table, inp.statement) :
              /\ m \in DOMAIN out.results
              /\ out.results[m].value =
                   ExpectedValue(inp.table, m, Min(LatestColumns(HeaderOf(inp.table))))

\* the record has the field with the value
HasField(record, field, val) == field \in DOMAIN record /\ record[field] = val

\* C14: in every returned snapshot Total Debt and Principal Repayment, which
\* no strategy extracts, have a record with value 0, method "assumed" and
\* confidence 0.5.
C14_AssumedDefaults ==
    pc = "returned" =>
        \A m \in {"Total Debt", "Principal Repayment"} :
            /\ m \in DOMAIN metrics
            /\ HasField(metrics[m], "value", Num(0))
            /\ HasField(metrics[m], "method", "assumed")
            /\ HasField(metrics[m], "confidence", 50)

\* C15: no page whose lower-cased text contains a stop anchor is a member of
\* a statement region, the page on which a region would open included.
C15_StopPageExcluded ==
    \A i \in DOMAIN doc : \A kind \in Kinds :
        HasStop[doc[i]] => ~ InRegion(kind, i - 1)

-----------------------------------------------------------------------------
(* The statement locator on its own, over longer documents *)

MaxScanPages == 3

InitScan == \E e \in {"root", "core"}, d \in SeqsUpTo(PageIds, MaxScanPages) : RunInit(e, d)

NextScan ==
    \/ ScanPageRoot
    \/ CorePreflight
    \/ ScanPageCore

SpecScan == InitScan /\ [][NextScan]_vars

RECURSIVE OpenAfter(_)

\* the region that is open in the root engine after the first n pages of the
\* document ("": none): a standalone page and a stop page close it, a page
\* with a start anchor opens the region of its kind
OpenAfter(n) ==
    IF n = 0 THEN ""
    ELSE IF IsStandalone[doc[n]] \/ HasStop[doc[n]] THEN ""
    ELSE IF RootOpens[doc[n]] # "" THEN RootOpens[doc[n]]
    ELSE OpenAfter(n - 1)

\* a stop anchor has closed the region of the kind, on the page with index j
\* (counted from 0): the region was open before the page, and the page has a
\* stop anchor and neither a start anchor nor the standalone signal.  In the
\* core engine the stop anchor ends the scan on the page.
ClosedAt(kind, j) ==
    /\ HasStop[PdfPage(j)]
    /\ IF engine = "root"
       THEN /\ j < idx /\ OpenAfter(j) = kind
            /\ RootOpens[PdfPage(j)] = "" /\ ~ IsStandalone[PdfPage(j)]
       ELSE /\ pc = "located" /\ j = idx /\ inside /\ current = kind
            /\ IsTextPage[PdfPage(j)]

\* C16: once a stop anchor has closed a region, no page later in the document
\* is a member of the region, even a page with a start anchor of its kind.
C16_ClosedStaysClosed ==
    \A kind \in Kinds : \A j \in 0..(NumPages - 1) :
        ClosedAt(kind, j) => \A k \in (j + 1)..(NumPages - 1) : ~ InRegion(kind, k)

\* the kinds whose start anchors the text of the page contains, for the
\* engine that runs
AnchorKinds(p) ==
    {kind \in Kinds :
        contains_any(LowerText[p],
                     IF engine = "root" THEN STATEMENT_HEADERS(kind)
                     ELSE CoreSTATEMENT_HEADERS(kind))}

\* the pages i to k of the document (counted from 1) are scanned pages with
\* a text layer, without a stop anchor and without the standalone signal
PlainStretch(i, k) ==
    /\ start_page < i
    /\ \A j \in i..k :
          IsTextPage[doc[j]] /\ ~ HasStop[doc[j]] /\ ~ IsStandalone[doc[j]]

\* each page of the stretch that carries the start anchor of one kind only is
\* in the region of that kind, and in no other
OwnRegionOnly(i, k) ==
    \A j \in i..k : \A kind \in Kinds :
        AnchorKinds(doc[j]) = {kind} =>
            /\ InRegion(kind, j - 1)
            /\ \A other \in Kinds \ {kind} : ~ InRegion(other, j - 1)

\* C17: when a page with the start anchor of one kind is followed by a page
\* with the start anchor of the other kind, without a stop anchor or a
\* standalone signal on or between them, then after the scan both regions
\* are non-empty and each page with the start anchor of one kind only is in
\* the region of its kind and not in the other.
C17_BothKindsLocated ==
    ScanDone =>
        \A i \in DOMAIN doc : \A k \in DOMAIN doc :
            (/\ i < k /\ PlainStretch(i, k)
             /\ Cardinality(AnchorKinds(doc[i])) = 1
             /\ Cardinality(AnchorKinds(doc[k])) = 1
             /\ AnchorKinds(doc[i]) # AnchorKinds(doc[k])) =>
                /\ Region(BS) # <<>> /\ Region(PL) # <<>>
                /\ OwnRegionOnly(i, k)

\* C18: in every returned snapshot the value of each directly extracted
\* metric is the not-found value (0 or null) or has an absolute value of at
\* least the materiality floor.
C18_MaterialOrNotFound ==
    pc = "returned" =>
        \A m \in (Vocabulary \ NotExtracted) \cap DOMAIN metrics :
            \/ metrics[m].value \in {None, Num(0)}
            \/ AtOrAboveFloor(metrics[m].value)

\* in the snapshot before the validation Net Profit was extracted (its value
\* is not the 0 of a metric that was not found) with the value of an
\* extracted PBT
CollidedBefore ==
    /\ "PBT" \in DOMAIN out.metrics
    /\ out.metrics["Net Profit"].value # Num(0)
    /\ out.metrics["Net Profit"].value = out.metrics["PBT"].value

\* C19: when Net Profit was extracted with exactly the value of PBT, the
\* validator resets Net Profit to 0 and records a warning; and it records
\* the warning only then, not when both are 0 because neither was found.
C19_LabelCollision ==
    pc = "once" =>
        /\ CollidedBefore =>
              metrics["Net Profit"].value = Num(0) /\ Warned(NetProfitWarning)
        /\ Warned(NetProfitWarning) => CollidedBefore

\* the value of a metric in the snapshot before the validation
Before20(m) == ValueIn(out.metrics, m)

\* the conditions of the three checks, on the values before the validation
NetWorthFires ==
    Before20("Net Worth").v > Before20("Total Assets").v /\ Before20("Total Assets").v > 0
CurrentAssetsFires ==
    Before20("Current Assets").v > Before20("Total Assets").v
        /\ Before20("Total Assets").v > 0
NetProfitFires == Before20("Net Profit") = Before20("PBT")

\* the warnings of the checks that fire, in the order of the checks
Fired ==
    (IF NetWorthFires THEN <<NetWorthWarning>> ELSE <<>>)
        \o (IF CurrentAssetsFires THEN <<CurrentAssetsWarning>> ELSE <<>>)
        \o (IF NetProfitFires THEN <<NetProfitWarning>> ELSE <<>>)

\* the value after a check: 0 when the check fires, as before otherwise
AfterCheck(fires, m) == IF fires THEN Num(0) ELSE Before20(m)

\* C20: each check of the validator changes only the value of its own metric
\* and only appends its warning; every other metric is as before; and each
\* check is decided by the values before the validation, whatever the other
\* checks do.
C20_ValidatorFrame ==
    pc = "once" =>
        /\ DOMAIN metrics = DOMAIN out.metrics
        /\ \A m \in DOMAIN metrics \ {"Net Worth", "Current Assets", "Net Profit"} :
              metrics[m] = out.metrics[m]
        /\ metrics["Net Worth"].value = AfterCheck(NetWorthFires, "Net Worth")
        /\ metrics["Current Assets"].value = AfterCheck(CurrentAssetsFires, "Current Assets")
        /\ metrics["Net Profit"].value = AfterCheck(NetProfitFires, "Net Profit")
        /\ warnings = out.warnings \o Fired

\* the three checks fire on one snapshot, and the other metrics are as before
C20_Witness ==
    /\ pc = "once" /\ Len(warnings) = 3
    /\ metrics["Net Worth"].value = Num(0) /\ out.metrics["Net Worth"].value # Num(0)
    /\ metrics["Current Assets"].value = Num(0)
    /\ metrics["Net Profit"].value = Num(0) /\ out.metrics["Net Profit"].value # Num(0)
    /\ metrics["Total Assets"] = out.metrics["Total Assets"]
    /\ metrics["Revenue"] = out.metrics["Revenue"]

\* the metrics of the statement that the regex strategy finds in the text of
\* the region
InText(statement) ==
    DOMAIN extract_regex_fallback(Region(statement), LabelMap(statement), statement)

\* a metric that no table of the region gives a material value for, and that
\* the text of the region has, is recorded with a material value
TextFillsGaps ==
    \A statement \in Kinds : \A m \in InText(statement) :
        TablesWith(statement, m) = {} =>
            m \in DOMAIN metrics /\ AtOrAboveFloor(metrics[m].value)

\* a metric that a line of the region has is recorded with a material value
\* (the core engine has no table strategy)
TextLineFinds ==
    \A m \in MetricsOf(CorePL_LABELS) :
        LinesWith(collect_lines(Region(PL)), KeysOf(CorePL_LABELS, m)) # {} =>
            m \in DOMAIN metrics /\ AtOrAboveFloor(metrics[m].value)

\* C22: for each metric of a statement for which the table-column strategy
\* gave no material value, the text strategy is attempted, whether or not a
\* table gave a value for another metric of the statement: a metric whose
\* value is in the text of the region is found.
C22_PerMetricFallback ==
    /\ (pc = "extracted" /\ engine = "root") => TextFillsGaps
    /\ (pc = "extracted" /\ engine = "core") => TextLineFinds


\* the tables of the region whose header row has no cell with a year
NoYearTables(statement) ==
    {k \in DOMAIN TablesOf(Region(statement)) :
        /\ TablesOf(Region(statement))[k].table # <<>>
        /\ \A c \in DOMAIN HeaderOf(TablesOf(Region(statement))[k].table) :
              YearOf(HeaderOf(TablesOf(Region(statement))[k].table)[c]) = 0}

\* the metrics that the labels of the rows of the table name
RowMetrics(t, statement) ==
    UNION {Matching(Lower(CellStr(t[r][1])), LabelMap(statement), <<>>) :
               r \in {q \in 2..Len(t) : t[q] # <<>>}}

\* no record is made from the table, and a metric of its rows that the text
\* of the region has is recorded with a material value
LeftToText(statement, k) ==
    /\ TableResult(statement, k) = <<>>
    /\ \A m \in RowMetrics(TablesOf(Region(statement))[k].table, statement)
                  \cap InText(statement) :
          m \in DOMAIN metrics /\ AtOrAboveFloor(metrics[m].value)

\* C21: for every table whose header row has no cell matching a year pattern,
\* the table-column strategy records no value from that table, and the
\* metrics of its rows remain available to the text fallback: a metric that
\* the text of the region has is found.
C21_NoBlindColumnGuess ==
    (pc = "extracted" /\ engine = "root") =>
        \A statement \in Kinds : \A k \in NoYearTables(statement) :
            LeftToText(statement, k)


-----------------------------------------------------------------------------
(* The runs of the two engines over long documents: a head of pages and a   *)
(* tail that repeats one page.                                              *)

MaxTailPages == 52

\* the heads: nothing, the notes (which name the financial statements) and a
\* statement of profit and loss, a balance sheet
DocumentHeads == {<<>>, <<6, 2>>, <<1>>}

\* the pages of a tail: a text page without any anchor, a page without a text
\* layer, a page that continues a statement
TailPages == {7, 8, 11}

LongDocuments(tails) ==
    {h \o [i \in 1..n |-> p] : h \in DocumentHeads, p \in tails, n \in 0..MaxTailPages}

\* the core engine on every long document; the root engine, which scans the
\* text of a whole region at once, on those whose tail has no text layer
InitBudget ==
    \/ \E d \in LongDocuments(TailPages) : RunInit("core", d)
    \/ \E d \in LongDocuments({8}) : RunInit("root", d)

SpecBudget == InitBudget /\ [][Next]_vars

\* the scan of the run has ended
ScanEnded == pc \in {"located", "bs_done", "extracted", "validated", "returned"} \/ ScanDone

\* the pages collected into the regions of the statements
Collected == Len(Region(BS)) + Len(Region(PL))

\* the scan of the core engine left pages of the document unexamined because
\* the region budget or the preflight budget was reached
StoppedByBudget ==
    /\ engine = "core" /\ ScanEnded /\ idx < NumPages
    /\ \/ processed >= MAX_FIN_PAGES
       \/ ~ inside /\ idx - start_page > MAX_PREFLIGHT_PAGES

\* C23: for every document the pages collected into the regions of the
\* statements in one run are at most the region budget (40), a scan that did
\* not enter a statement does not go on beyond the preflight budget (50) of
\* pages past the start page, and a run whose scan was stopped early by a
\* budget has a warning in its diagnostics when it returns.
C23_PageScanBudget ==
    /\ ScanEnded => Collected <= MAX_FIN_PAGES
    /\ (engine = "core" /\ pc = "scan" /\ ~ inside) =>
           idx - start_page <= MAX_PREFLIGHT_PAGES + 1
    /\ (pc = "returned" /\ StoppedByBudget) => warnings # <<>>

=============================================================================
